---- MODULE Spec2Model ----
(***************************************************************************)
(* Model of tss-esapi's capability commands                                *)
(* (src/tss-esapi/src/context/tpm_commands/capability_commands.rs):        *)
(* Context::get_capability and Context::test_parms.                        *)
(*                                                                         *)
(* The transport (Esys_GetCapability / Esys_TestParms) is an external      *)
(* collaborator: each call draws the transport's response (response code,  *)
(* flag byte written or not, output buffer) from a bounded set.  A handler *)
(* is one atomic action; the calls it makes on its way (the transport,     *)
(* from_tss_rc, MBox::from_raw, try_from, the drop of the MBox, error!,    *)
(* warn!) are recorded in order in the handler's trace.                    *)
(***************************************************************************)
EXTENDS Integers, Sequences

(* ---------------------------------------------------------------- bounds *)

\* Calls made on one Context in a run.
MaxCalls == 2

\* Response codes are 0 (success) .. MaxRc.
MaxRc == 2

\* Flag bytes the transport may write: 0 .. MaxFlagByte, and 255.
MaxFlagByte == 2

(* ------------------------------------------------------------ data model *)

\* The success response code tested by Error::is_success.
TSS2_RC_SUCCESS == 0

ResponseCodes == 0..MaxRc

FlagBytes == (0..MaxFlagByte) \cup {255}

\* The capability types a caller may request (the doc comment names
\* Algorithms in its example and AuthPolicies in its warning).
CapabilityTypes == {"Algorithms", "Commands", "AuthPolicies"}

\* capability.into(): the wire discriminant (TPM2_CAP) of a capability type.
CapabilityTypeInto(capability) ==
    CASE capability = "Algorithms" -> 0
      [] capability = "Commands" -> 2
      [] capability = "AuthPolicies" -> 9

\* The discriminants a returned union may carry: those of the capability
\* types, and one (127) that no capability type has.
Discriminants == {CapabilityTypeInto(c) : c \in CapabilityTypes} \cup {127}

\* The arguments of the doc example: get_capability(Algorithms, 0, 80).
Properties == {0}

PropertyCounts == {80}

\* PublicParameters handed to test_parms.
PublicParametersSet == {"Rsa", "Ecc"}

\* public_parmeters.into(): the wire form of the parameters (total).
PublicParametersInto(public_parmeters) ==
    CASE public_parmeters = "Rsa" -> [type |-> 1, keyBits |-> 2048]
      [] public_parmeters = "Ecc" -> [type |-> 35, keyBits |-> 256]

\* null_mut(): the output pointer before the transport writes it.
null_mut == [null |-> TRUE, capability |-> 0, field_present |-> FALSE, payload |-> 0]

\* The contents of the union's storage field, two distinguishable values.
Payloads == {0, 1}

\* A TPMS_CAPABILITY_DATA the transport allocated.
AllocatedBuffers ==
    [null : {FALSE}, capability : Discriminants, field_present : BOOLEAN,
     payload : Payloads]

\* What the transport does to the flag byte: leaves it, or writes a byte.
FlagWrites ==
    {[wrote |-> FALSE, value |-> 0]} \cup [wrote : {TRUE}, value : FlagBytes]

\* The transport's responses to Esys_GetCapability: on success the buffer is
\* allocated, on failure the output pointer is left null.
EsysGetCapabilityResponses ==
    [rc : {TSS2_RC_SUCCESS}, flag : FlagWrites, buf : AllocatedBuffers]
      \cup [rc : ResponseCodes \ {TSS2_RC_SUCCESS}, flag : FlagWrites, buf : {null_mut}]

(* ----------------------------------------------------------------- errors *)

NoError == [variant |-> "none", kind |-> "", code |-> 0]

WrapperError(kind) == [variant |-> "WrapperError", kind |-> kind, code |-> 0]

\* Error::from_tss_rc: the raw code wrapped, its value kept.
from_tss_rc(rc) == [variant |-> "Tss2Error", kind |-> "", code |-> rc]

\* Error::is_success
is_success(ret) == ret.variant = "Tss2Error" /\ ret.code = TSS2_RC_SUCCESS

NoCapabilities == [tag |-> "none", payload |-> 0]

\* Result<(CapabilityData, bool)> and Result<()>
Ok(capabilities, moredata) ==
    [ok |-> TRUE, capabilities |-> capabilities, moredata |-> moredata, err |-> NoError]

Err(e) == [ok |-> FALSE, capabilities |-> NoCapabilities, moredata |-> FALSE, err |-> e]

\* CapabilityData::try_from: dispatch on the discriminant of the union; it
\* fails on an unrecognized discriminant and on an absent storage field, and
\* a failed conversion logs its diagnostic line itself (logged).
try_from(raw) ==
    IF \A c \in CapabilityTypes : CapabilityTypeInto(c) # raw.capability
    THEN [ok |-> FALSE, value |-> NoCapabilities, err |-> WrapperError("InvalidParam"),
          logged |-> TRUE]
    ELSE IF ~raw.field_present
    THEN [ok |-> FALSE, value |-> NoCapabilities, err |-> WrapperError("UnsupportedParam"),
          logged |-> TRUE]
    ELSE [ok |-> TRUE,
          value |-> [tag |-> CHOOSE c \in CapabilityTypes :
                                 CapabilityTypeInto(c) = raw.capability,
                     payload |-> raw.payload],
          err |-> NoError,
          logged |-> FALSE]

(* ------------------------------------------------------------------ state *)

VARIABLES
    apiCalls,     \* get_capability and test_parms calls made
    esysCalls,    \* transport invocations made
    log,          \* the log lines emitted, in order
    unreleased,   \* transport-allocated buffers never released
    last,         \* the last call: operation, request, response, result, trace
    tests         \* the last two test_parms calls

vars == <<apiCalls, esysCalls, log, unreleased, last, tests>>

Has(s, x) == \E i \in DOMAIN s : s[i] = x

LogSteps == {"error!", "warn!"}

LogLines(trace) == SelectSeq(trace, LAMBDA step : step \in LogSteps)

EsysSteps == {"Esys_GetCapability", "Esys_TestParms"}

EsysInvocations(trace) == Len(SelectSeq(trace, LAMBDA step : step \in EsysSteps))

(* --------------------------------------------------------- get_capability *)

\* Mutant: the flag byte is left uninitialised and holds a byte outside {0, 1}.
outmoredata_uninit == CHOOSE b \in FlagBytes : b \notin {0, 1}

\* let mut outmoredata: u8 = 0;
outmoredata_init == 0

\* The unsafe Esys_GetCapability call: what the locals hold when it returns.
Esys_GetCapability(outmoredata, outcapabilitydata, resp) ==
    [ret |-> resp.rc,
     outmoredata |-> IF resp.flag.wrote THEN resp.flag.value ELSE outmoredata,
     outcapabilitydata |-> IF resp.buf.null THEN outcapabilitydata ELSE resp.buf]

\* Mutant: the flag byte is read as a C boolean, any non-zero byte being true.
decode_moredata_nonzero(outmoredata) ==
    IF outmoredata = 0 THEN [ok |-> TRUE, moredata |-> FALSE]
    ELSE [ok |-> TRUE, moredata |-> TRUE]

\* let moredata = if outmoredata == 0 { false } else if outmoredata == 1 { true }
\*                else { return Err(WrongValueFromTpm) };
decode_moredata(outmoredata) ==
    IF outmoredata = 0 THEN [ok |-> TRUE, moredata |-> FALSE]
    ELSE IF outmoredata = 1 THEN [ok |-> TRUE, moredata |-> TRUE]
    ELSE [ok |-> FALSE, moredata |-> FALSE]

\* The steps from MBox::from_raw to the end of the MBox's scope: the
\* conversion with the line it may log, and the drop of the MBox, which
\* releases the buffer on the Ok path and on the `?` path.
conversion_steps(capabilities) ==
    <<"MBox::from_raw", "try_from">>
      \o (IF capabilities.logged THEN <<"error!">> ELSE <<>>)
      \o <<"MBox::drop">>

\* Mutant: the output pointer is taken into an MBox and converted before the
\* response code is tested.
interpret_response_eager(ret, outcapabilitydata, moredata) ==
    LET err == from_tss_rc(ret)
        capabilities == try_from(outcapabilitydata)
    IN  IF is_success(err)
        THEN [result |-> IF capabilities.ok
                         THEN Ok(capabilities.value, moredata)
                         ELSE Err(capabilities.err),
              trace |-> <<"from_tss_rc">> \o conversion_steps(capabilities)]
        ELSE [result |-> Err(err),
              trace |-> <<"from_tss_rc">> \o conversion_steps(capabilities)
                          \o <<"error!">>]

\* Mutant: the decoded flag is dropped and more_data is always false.
interpret_response_no_flag(ret, outcapabilitydata, moredata) ==
    LET err == from_tss_rc(ret) IN
    IF is_success(err)
    THEN LET capabilities == try_from(outcapabilitydata) IN
         [result |-> IF capabilities.ok
                     THEN Ok(capabilities.value, FALSE)
                     ELSE Err(capabilities.err),
          trace |-> <<"from_tss_rc">> \o conversion_steps(capabilities)]
    ELSE [result |-> Err(err), trace |-> <<"from_tss_rc", "error!">>]

\* From Error::from_tss_rc(ret) to the end of get_capability.
interpret_response(ret, outcapabilitydata, moredata) ==
    LET err == from_tss_rc(ret) IN
    IF is_success(err)
    THEN LET capabilities == try_from(outcapabilitydata) IN
         [result |-> IF capabilities.ok
                     THEN Ok(capabilities.value, moredata)
                     ELSE Err(capabilities.err),
          trace |-> <<"from_tss_rc">> \o conversion_steps(capabilities)]
    ELSE [result |-> Err(err), trace |-> <<"from_tss_rc", "error!">>]

\* Mutant: the response code is interpreted first, the flag byte only on success.
get_capability_rc_first(capability, property, property_count, resp) ==
    LET out == Esys_GetCapability(outmoredata_init, null_mut, resp)
        flag == decode_moredata(out.outmoredata)
        err == from_tss_rc(out.ret)
    IN  IF ~is_success(err)
        THEN [result |-> Err(err),
              trace |-> <<"Esys_GetCapability", "from_tss_rc", "error!">>]
        ELSE IF ~flag.ok
        THEN [result |-> Err(WrapperError("WrongValueFromTpm")),
              trace |-> <<"Esys_GetCapability", "from_tss_rc">>]
        ELSE LET rest == interpret_response(out.ret, out.outcapabilitydata, flag.moredata)
             IN  [result |-> rest.result,
                  trace |-> <<"Esys_GetCapability">> \o rest.trace]

\* Mutant: a command the transport failed is sent once more.
get_capability_retry(capability, property, property_count, resp) ==
    LET out == Esys_GetCapability(outmoredata_init, null_mut, resp)
        flag == decode_moredata(out.outmoredata)
    IN  IF ~flag.ok
        THEN [result |-> Err(WrapperError("WrongValueFromTpm")),
              trace |-> <<"Esys_GetCapability">>]
        ELSE LET rest == interpret_response(out.ret, out.outcapabilitydata, flag.moredata)
             IN  IF rest.result.ok
                 THEN [result |-> rest.result,
                       trace |-> <<"Esys_GetCapability">> \o rest.trace]
                 ELSE [result |-> rest.result,
                       trace |-> <<"Esys_GetCapability">> \o rest.trace
                                   \o <<"Esys_GetCapability">> \o rest.trace]

\* Context::get_capability: its result and the calls it made, in order.
get_capability(capability, property, property_count, resp) ==
    LET out == Esys_GetCapability(outmoredata_init, null_mut, resp)
        flag == decode_moredata(out.outmoredata)
    IN  IF ~flag.ok
        THEN [result |-> Err(WrapperError("WrongValueFromTpm")),
              trace |-> <<"Esys_GetCapability">>]
        ELSE LET rest == interpret_response(out.ret, out.outcapabilitydata, flag.moredata)
             IN  [result |-> rest.result,
                  trace |-> <<"Esys_GetCapability">> \o rest.trace]

(* -------------------------------------------------------------- test_parms *)

\* Mutant: parameters equal to those tested last are answered from memory,
\* without asking the transport.
test_parms_cached(public_parmeters, rc) ==
    LET ret == from_tss_rc(rc) IN
    IF tests # <<>> /\ tests[Len(tests)].params = public_parmeters
    THEN [result |-> Ok(NoCapabilities, FALSE), trace |-> <<>>]
    ELSE IF is_success(ret)
    THEN [result |-> Ok(NoCapabilities, FALSE), trace |-> <<"Esys_TestParms", "from_tss_rc">>]
    ELSE [result |-> Err(ret), trace |-> <<"Esys_TestParms", "from_tss_rc", "warn!">>]

\* Context::test_parms: its result and the calls it made, in order.
test_parms(public_parmeters, rc) ==
    LET ret == from_tss_rc(rc) IN
    IF is_success(ret)
    THEN [result |-> Ok(NoCapabilities, FALSE), trace |-> <<"Esys_TestParms", "from_tss_rc">>]
    ELSE [result |-> Err(ret), trace |-> <<"Esys_TestParms", "from_tss_rc", "warn!">>]

(* ---------------------------------------------------------------- actions *)

NoCall ==
    [op |-> "none", request |-> <<>>, response |-> <<>>,
     result |-> Ok(NoCapabilities, FALSE), trace |-> <<>>]

Init ==
    /\ apiCalls = 0
    /\ esysCalls = 0
    /\ log = <<>>
    /\ unreleased = 0
    /\ last = NoCall
    /\ tests = <<>>

\* A buffer the transport allocated is released by the drop of the MBox that
\* MBox::from_raw made of it, and by nothing else.
Leaked(resp, trace) ==
    IF ~resp.buf.null /\ ~Has(trace, "MBox::drop") THEN 1 ELSE 0

GetCapability(capability, property, property_count, resp) ==
    /\ apiCalls < MaxCalls
    /\ LET out == get_capability(capability, property, property_count, resp) IN
        /\ last' = [op |-> "get_capability",
                    request |-> [capability |-> capability,
                                 wire |-> CapabilityTypeInto(capability),
                                 property |-> property,
                                 property_count |-> property_count],
                    response |-> resp,
                    result |-> out.result,
                    trace |-> out.trace]
        /\ esysCalls' = esysCalls + EsysInvocations(out.trace)
        /\ log' = log \o LogLines(out.trace)
        /\ unreleased' = unreleased + Leaked(resp, out.trace)
    /\ apiCalls' = apiCalls + 1
    /\ UNCHANGED tests

TestParms(public_parmeters, rc) ==
    /\ apiCalls < MaxCalls
    /\ LET out == test_parms(public_parmeters, rc) IN
        /\ last' = [op |-> "test_parms",
                    request |-> [params |-> public_parmeters,
                                 wire |-> PublicParametersInto(public_parmeters)],
                    response |-> [rc |-> rc],
                    result |-> out.result,
                    trace |-> out.trace]
        /\ esysCalls' = esysCalls + EsysInvocations(out.trace)
        /\ log' = log \o LogLines(out.trace)
        /\ tests' = (IF Len(tests) = 2 THEN Tail(tests) ELSE tests)
                       \o <<[params |-> public_parmeters, rc |-> rc,
                              result |-> out.result, trace |-> out.trace]>>
    /\ apiCalls' = apiCalls + 1
    /\ UNCHANGED unreleased

Next ==
    \/ \E capability \in CapabilityTypes, property \in Properties,
          property_count \in PropertyCounts, resp \in EsysGetCapabilityResponses :
            GetCapability(capability, property, property_count, resp)
    \/ \E public_parmeters \in PublicParametersSet, rc \in ResponseCodes :
            TestParms(public_parmeters, rc)

Spec == Init /\ [][Next]_vars

(* ----------------------------------------------------------------- claims *)

WrongValueFromTpm == Err(WrapperError("WrongValueFromTpm"))

LastGetCapability == last.op = "get_capability"

\* The flag byte get_capability reads once the transport has returned.
LastFlagByte ==
    IF last.response.flag.wrote THEN last.response.flag.value ELSE outmoredata_init

\* C1: for every flag byte b the transport writes, a returned more_data is
\* true iff b = 1 and false iff b = 0, and for every other b the call returns
\* Err(WrapperError(WrongValueFromTpm)), never an Ok.
C1_MoreDataDecoding ==
    (LastGetCapability /\ last.response.flag.wrote) =>
        LET b == last.response.flag.value IN
        /\ b \notin {0, 1} => last.result = WrongValueFromTpm
        /\ last.result.ok => /\ b \in {0, 1}
                             /\ last.result.moredata <=> (b = 1)

C1_Witness ==
    /\ LastGetCapability
    /\ last.response.flag.wrote
    /\ last.response.flag.value = 1
    /\ last.result.ok
    /\ last.result.moredata

\* C2: a flag byte outside {0, 1} yields WrongValueFromTpm whatever the
\* response code, and on that path the call does nothing after the transport
\* returns: no from_tss_rc, no MBox::from_raw, no try_from.
C2_FlagValidatedFirst ==
    (LastGetCapability /\ LastFlagByte \notin {0, 1}) =>
        /\ last.result = WrongValueFromTpm
        /\ last.trace = <<"Esys_GetCapability">>

C2_Witness ==
    /\ LastGetCapability
    /\ LastFlagByte \notin {0, 1}
    /\ last.response.rc # TSS2_RC_SUCCESS
    /\ last.result = WrongValueFromTpm

\* C3: when the response code is not success the call returns an error
\* carrying no CapabilityData, and the output pointer is neither taken into
\* an MBox nor converted.
C3_NoDataOnTransportFailure ==
    (LastGetCapability /\ last.response.rc # TSS2_RC_SUCCESS) =>
        /\ ~last.result.ok
        /\ last.result.capabilities = NoCapabilities
        /\ ~Has(last.trace, "MBox::from_raw")
        /\ ~Has(last.trace, "try_from")

C3_Witness ==
    /\ LastGetCapability
    /\ last.response.rc # TSS2_RC_SUCCESS
    /\ LastFlagByte \in {0, 1}
    /\ last.result = Err(from_tss_rc(last.response.rc))
    /\ Has(last.trace, "error!")

\* C4: an Ok result of get_capability carries the variant of the capability
\* type that was requested, also when the returned union carries another
\* discriminant.
C4_VariantMatchesRequest ==
    (LastGetCapability /\ last.result.ok) =>
        last.result.capabilities.tag = last.request.capability

C6_NoRetries ==
    /\ esysCalls = apiCalls
    /\ last.op # "none" =>
          /\ EsysInvocations(last.trace) = 1
          /\ last.trace[1] \in EsysSteps

C6_Witness ==
    /\ apiCalls = 2
    /\ esysCalls = 2
    /\ LastGetCapability
    /\ last.result.err.variant = "Tss2Error"

\* C7: a call logs a line iff it returns an error.
C7_LogOnEveryFailure ==
    last.op # "none" => (last.result.ok <=> LogLines(last.trace) = <<>>)

\* C8: on a success response code with a flag byte in {0, 1} the output
\* buffer is taken into an MBox and converted; the call returns Ok of the
\* conversion and the decoded flag, or the conversion's error.
C8_SuccessPath ==
    (/\ LastGetCapability
     /\ last.response.rc = TSS2_RC_SUCCESS
     /\ LastFlagByte \in {0, 1}) =>
        LET c == try_from(last.response.buf) IN
        /\ Has(last.trace, "MBox::from_raw")
        /\ Has(last.trace, "try_from")
        /\ last.result = IF c.ok THEN Ok(c.value, LastFlagByte = 1) ELSE Err(c.err)

C8_Witness ==
    /\ LastGetCapability
    /\ last.response.rc = TSS2_RC_SUCCESS
    /\ LastFlagByte = 1
    /\ last.result.ok
    /\ last.result.capabilities.payload = last.response.buf.payload
    /\ last.result.capabilities.payload > 0

\* C9: when a call has returned, no buffer the transport allocated remains
\* unreleased.
C9_BuffersReleased == unreleased = 0

\* C10: a transport failure that leaves the flag byte unwritten returns the
\* error of the response code, and WrongValueFromTpm is returned only when
\* the transport wrote a byte outside {0, 1}.
C10_FlagInitialisedZero ==
    LastGetCapability =>
        /\ (~last.response.flag.wrote /\ last.response.rc # TSS2_RC_SUCCESS) =>
              last.result = Err(from_tss_rc(last.response.rc))
        /\ last.result = WrongValueFromTpm =>
              (last.response.flag.wrote /\ last.response.flag.value \notin {0, 1})

C10_Witness ==
    /\ LastGetCapability
    /\ ~last.response.flag.wrote
    /\ last.response.rc # TSS2_RC_SUCCESS
    /\ last.result.err.variant = "Tss2Error"
    /\ last.result.err.code = last.response.rc

====
